---- MODULE Spec2Model ----
(***************************************************************************)
(* A model of obwc.py: the keyword extractor (extract_related_keywords)    *)
(* and the recursive search controller (search_videos_by_keyword).         *)
(*                                                                         *)
(* Text is a sequence of one-character strings.  Durations are integers in *)
(* milliseconds, so default_timeout * 2**n + randint(0, 1000) / 1000       *)
(* seconds is default_timeout_ms * 2^n + randint(0, 1000) milliseconds.    *)
(***************************************************************************)
EXTENDS Integers, Sequences, FiniteSets, TLC

VARIABLES
    status,     \* position of the top-level call: "init", "running", "done", "raised"
    params,     \* the arguments of the top-level call, passed unchanged to sub-calls
    hashseed,   \* the process's string-hash seed: fixes the iteration order of sets
    stack,      \* the call stack of search_videos_by_keyword, innermost call last
    result,     \* the sequence returned by the top-level call
    served,     \* number of items the API has returned so far
    sleeping,   \* the time.sleep in progress: the attempt index n it follows and the
                \* number random.randint gave for it; NoSleep when there is none
    xin,        \* the record handed to extract_related_keywords (extractor runs)
    xout,       \* what extract_related_keywords returned for xin, or NotRun
    main        \* the script run: config.json, position in main(), all_videos, the file

vars == <<status, params, hashseed, stack, result, served, sleeping, xin, xout, main>>

-----------------------------------------------------------------------------
(* Bounds of the model *)

MaxLen == 3         \* longest generated description, in characters (titles: one less)
MaxDepth == 2       \* largest max_depth
MaxRetries == 2     \* largest max_retries
MaxServed == 3      \* most items the API returns, over all queries of one crawl
MaxFairWork == 2    \* largest max_results * max_depth * max_retries of the calls checked for termination

-----------------------------------------------------------------------------
(* Text: str.lower() and re.findall(r'\w+', ...) *)

\* A text is a sequence of characters.  An ASCII character is the string of that
\* one character; a character outside ASCII is the string of its code point:
\* "U+00C9" is the single character LATIN CAPITAL LETTER E WITH ACUTE.

UpperCase == <<"A","B","C","D","E","F","G","H","I","J","K","L","M",
               "N","O","P","Q","R","S","T","U","V","W","X","Y","Z">>
LowerCase == <<"a","b","c","d","e","f","g","h","i","j","k","l","m",
               "n","o","p","q","r","s","t","u","v","w","x","y","z">>
Digits == {"0","1","2","3","4","5","6","7","8","9"}

Range(s) == {s[i] : i \in DOMAIN s}

\* the characters outside ASCII that the model holds: E acute (capital, small),
\* capital I with dot above, sigma (capital, small, final), sharp s, the CJK
\* ideograph U+4E2D, ARABIC-INDIC DIGIT THREE, SUPERSCRIPT TWO, COMBINING DOT ABOVE
CapitalSigma == "U+03A3"
SmallSigma == "U+03C3"
FinalSigma == "U+03C2"
CombiningDot == "U+0307"
NonAsciiLetters == {"U+00C9", "U+00E9", "U+0130", CapitalSigma, SmallSigma, FinalSigma, "U+00DF"}
NonAsciiOtherWordChars == {"U+4E2D", "U+0663", "U+00B2"}

UpperCaseLetters == Range(UpperCase)
LowerCaseLetters == Range(LowerCase)

\* the characters that match \w in a str pattern (the Unicode class), and the
\* other characters of the model; str.lower and \w are modelled on Chars only
WordChars ==
    UpperCaseLetters \cup LowerCaseLetters \cup Digits \cup {"_"}
        \cup NonAsciiLetters \cup NonAsciiOtherWordChars
OtherChars == {" ", ".", ",", "-", "'", CombiningDot}
Chars == WordChars \cup OtherChars

\* the characters with the Unicode property Cased, and those with Case_Ignorable
Cased == UpperCaseLetters \cup LowerCaseLetters \cup NonAsciiLetters
CaseIgnorable == {".", "'", CombiningDot}

\* the lowercase mappings outside ASCII that change the character: the one of
\* capital I with dot above is two characters long
SpecialLower ==
    ("U+00C9" :> <<"U+00E9">>) @@ ("U+0130" :> <<"i", CombiningDot>>)
        @@ (CapitalSigma :> <<SmallSigma>>)

\* the lowercase of each character of the model: a string of one or two characters
LowerTable ==
    [c \in Chars |->
        IF c \in UpperCaseLetters
        THEN <<LowerCase[CHOOSE i \in DOMAIN UpperCase : UpperCase[i] = c]>>
        ELSE IF c \in DOMAIN SpecialLower THEN SpecialLower[c]
        ELSE <<c>>]

\* str.lower() on one character
LowerChar(c) == LowerTable[c]

\* the capital sigma at s[i] is in Final_Sigma context: the nearest character
\* before it that is not case-ignorable is cased, and the nearest one after it
\* that is not case-ignorable, if any, is not cased
IsFinalSigma(s, i) ==
    LET before == {j \in 1..(i - 1) : s[j] \notin CaseIgnorable}
        after == {j \in (i + 1)..Len(s) : s[j] \notin CaseIgnorable}
    IN  /\ before # {}
        /\ s[CHOOSE j \in before : \A k \in before : k <= j] \in Cased
        /\ \/ after = {}
           \/ s[CHOOSE j \in after : \A k \in after : j <= k] \notin Cased

\* what str.lower() puts for the character at s[i]
LowerAt(s, i) ==
    IF s[i] = CapitalSigma /\ IsFinalSigma(s, i)
    THEN <<FinalSigma>>
    ELSE LowerChar(s[i])

RECURSIVE LowerFrom(_, _)
LowerFrom(s, i) == IF i > Len(s) THEN <<>> ELSE LowerAt(s, i) \o LowerFrom(s, i + 1)

\* str.lower()
Lower(s) == LowerFrom(s, 1)

\* the character class \w
IsWordChar(c) ==
    CASE c \in WordChars -> TRUE
      [] c \in OtherChars -> FALSE

\* re.findall(r'\w+', s): a left-to-right scan collecting maximal runs of \w
RECURSIVE Scan(_, _, _, _)
Scan(s, i, cur, acc) ==
    IF i > Len(s)
    THEN IF cur = <<>> THEN acc ELSE Append(acc, cur)
    ELSE IF IsWordChar(s[i])
         THEN Scan(s, i + 1, Append(cur, s[i]), acc)
         ELSE Scan(s, i + 1, <<>>, IF cur = <<>> THEN acc ELSE Append(acc, cur))

FindAllWords(s) == Scan(s, 1, <<>>, <<>>)

RECURSIVE SetToSeq(_)
SetToSeq(S) ==
    IF S = {} THEN <<>>
    ELSE LET x == CHOOSE y \in S : TRUE IN <<x>> \o SetToSeq(S \ {x})

RECURSIVE Factorial(_)
Factorial(n) == IF n <= 1 THEN 1 ELSE n * Factorial(n - 1)

\* the k-th of the Len(base)! orders of the elements of base, k counted from 0:
\* of the places r of base not yet taken, the next one is the (j \div f)-th
\* smallest, f being the number of orders of the others
Arrangement(base, k) ==
    LET pick[r \in SUBSET DOMAIN base, j \in Nat] ==
            IF r = {} THEN <<>>
            ELSE LET f == Factorial(Cardinality(r) - 1)
                     i == CHOOSE x \in r : Cardinality({y \in r : y < x}) = j \div f
                 IN  <<base[i]>> \o pick[r \ {i}, j % f]
    IN  pick[DOMAIN base, k]

\* the number of orders list(set(xs)) can have
Orders(xs) == Factorial(Cardinality(Range(xs)))

\* the string-hash seeds that list(set(xs)) tells apart: one for each order
SeedsFor(xs) == 0..(Orders(xs) - 1)

\* list(set(xs)): the elements of xs once each, in an order that the hash seed of
\* the process fixes; every order of the elements is the order of some seed
ListOfSet(xs, seed) == Arrangement(SetToSeq(Range(xs)), seed % Orders(xs))

\* (a variant that never takes the early return)
DescriptionMissingNoCheck(description) == FALSE
\* the test `if not description`
DescriptionMissing(description) == description = <<>>

\* title_keywords + description_keywords
AllTokens(title, description) ==
    FindAllWords(Lower(title)) \o FindAllWords(Lower(description))

extract_related_keywords(video_metadata, seed) ==
    LET title == video_metadata.title
        description == video_metadata.description
    IN  IF DescriptionMissing(description)
        THEN <<>>
        ELSE ListOfSet(AllTokens(title, description), seed)

-----------------------------------------------------------------------------
(* Runs of the extractor alone, as tests.py calls it *)

Alphabet == {"A", "a", " ", "_"}

RECURSIVE TextsUpTo(_)
TextsUpTo(n) ==
    IF n = 0 THEN {<<>>}
    ELSE LET shorter == TextsUpTo(n - 1)
         IN  shorter \cup {Append(t, c) : t \in {u \in shorter : Len(u) = n - 1}, c \in Alphabet}

ExampleTitle ==
    <<"P","y","t","h","o","n"," ","P","r","o","g","r","a","m","m","i","n","g"," ",
      "T","u","t","o","r","i","a","l">>
ExampleDescription ==
    <<"L","e","a","r","n"," ","P","y","t","h","o","n"," ","p","r","o","g","r","a","m","m","i","n","g"," ",
      "f","r","o","m"," ","s","c","r","a","t","c","h"," ","i","n"," ","t","h","i","s"," ",
      "t","u","t","o","r","i","a","l",".">>

\* texts with characters outside ASCII: "Ist" with a dotted capital I, "Ete" with
\* its accents, a capital sigma at the end of a word and before ".B", a capital
\* sigma at the start of a word, and characters that are neither ASCII nor cased
UnicodeTexts ==
    { <<"U+0130", "s", "t">>,
      <<"U+00C9", "t", "U+00E9">>,
      <<"A", CapitalSigma, " ", "A", CapitalSigma, ".", "B">>,
      <<CapitalSigma, "a", " ", "U+00DF">>,
      <<"U+4E2D", " ", "U+0663", "U+00B2">> }

Titles == TextsUpTo(MaxLen - 1) \cup UnicodeTexts
Descriptions == TextsUpTo(MaxLen) \cup UnicodeTexts

\* the record of test_extract_related_keywords
ExampleRecord == [title |-> ExampleTitle, description |-> ExampleDescription]

NoneValue == "None"

\* the defaults of search_videos_by_keyword's signature (timeout in milliseconds)
DefaultParams ==
    [keyword |-> <<>>, max_results |-> 10, depth |-> 0, max_depth |-> 2,
     api_key |-> NoneValue, max_retries |-> 5, default_timeout |-> 1000]

NotRun == [ran |-> FALSE, keywords |-> <<>>]
NoSleep == [slept |-> FALSE, n |-> 0, jitter |-> 0]

\* main() is not running: the function under study is called directly
NoMain == [pc |-> "none"]

ExtractInit ==
    /\ xin \in [title : Titles, description : Descriptions] \cup {ExampleRecord}
    /\ xout = NotRun
    /\ hashseed \in SeedsFor(AllTokens(xin.title, xin.description))
    /\ status = "init"
    /\ params = DefaultParams
    /\ stack = <<>>
    /\ result = <<>>
    /\ served = 0
    /\ sleeping = NoSleep
    /\ main = NoMain

ExtractRelatedKeywords ==
    /\ xout = NotRun
    /\ xout' = [ran |-> TRUE, keywords |-> extract_related_keywords(xin, hashseed)]
    /\ UNCHANGED <<status, params, hashseed, stack, result, served, sleeping, xin, main>>

ExtractNext == ExtractRelatedKeywords

SpecExtract == ExtractInit /\ [][ExtractNext]_vars

-----------------------------------------------------------------------------
(* The external search API: what youtube.search().list(...).execute() gives *)

Text_A == <<"A">>
Text_aB == <<"a", " ", "B">>
Text_Ab == <<"A", "b">>
Text_b == <<"b">>
Text_cats == <<"c", "a", "t", "s">>

\* search results: {id: {videoId}, snippet: {title, channelTitle, description?}}
Catalog ==
    { [id |-> [videoId |-> "v1"],
       snippet |-> [title |-> Text_A, channelTitle |-> "ch", description |-> Text_aB]],
      [id |-> [videoId |-> "v2"],
       snippet |-> [title |-> Text_Ab, channelTitle |-> "ch", description |-> <<>>]],
      [id |-> [videoId |-> "v3"],
       snippet |-> [title |-> Text_b, channelTitle |-> "ch"]] }

\* an item outside the API's contract: its snippet has no channelTitle
Malformed ==
    [id |-> [videoId |-> "v4"], snippet |-> [title |-> Text_b, description |-> Text_aB]]

Min(a, b) == IF a < b THEN a ELSE b

\* the item lists of a response: at most max_results items, no video twice
ItemSeqs(max_results) ==
    UNION {{s \in [1..m -> Catalog] : \A i, j \in 1..m : s[i] = s[j] => i = j} :
               m \in 0..Min(max_results, Cardinality(Catalog))}

\* a response whose last item is the malformed one, after max_results - 1 others
MalformedResponses(max_results) ==
    {[kind |-> "ok", body |-> [items |-> Append(s, Malformed)]] :
        s \in {t \in ItemSeqs(max_results - 1) :
                  /\ Len(t) = max_results - 1
                  /\ \A i \in DOMAIN t :
                         \/ "description" \notin DOMAIN t[i].snippet
                         \/ t[i].snippet.description = <<>>}}

\* a successful response body; the 'items' key may be absent, and the last item
\* may be the malformed one
OkResponses(max_results) ==
    {[kind |-> "ok", body |-> [items |-> s]] : s \in ItemSeqs(max_results)}
        \cup {[kind |-> "ok", body |-> [etag |-> "e"]]}
        \cup MalformedResponses(max_results)

QuotaBody == <<"reason", "quotaExceeded">>
RateBody == <<"reason", "rateLimitExceeded">>

HttpError(st, content) == [kind |-> "HttpError", status |-> st, content |-> content]

\* what execute() can raise: an HttpError with a status and a body, or another
\* exception; the transient errors are named apart
TransientErrors == {HttpError(403, RateBody), HttpError(500, QuotaBody), HttpError(503, RateBody)}
Errors ==
    TransientErrors
        \cup {HttpError(403, QuotaBody), HttpError(404, RateBody), [kind |-> "Exception"]}

NoResponse == [kind |-> "none"]

\* random.randint(0, 1000): any integer from 0 to 1000, both ends included
RandintLow == 0
RandintHigh == 1000
Randint == RandintLow..RandintHigh

-----------------------------------------------------------------------------
(* search_videos_by_keyword *)

\* (a variant that only tests for None)
FalsyNoneOnly(api_key) == api_key = NoneValue
\* `not api_key`
Falsy(api_key) == api_key = NoneValue \/ api_key = ""

\* dict.get(key, default)
Get(d, key, default) == IF key \in DOMAIN d THEN d[key] ELSE default

\* 'quotaExceeded' in str(e.content)
Contains(content, word) == word \in Range(content)

\* the subscripts of lines 107-109 succeed: no KeyError
WellFormed(search_result) ==
    /\ "title" \in DOMAIN search_result.snippet
    /\ "videoId" \in DOMAIN search_result.id
    /\ "channelTitle" \in DOMAIN search_result.snippet

\* (a variant that tags every record with depth 0)
VideoMetadataUntagged(search_result, depth) ==
    [title |-> search_result.snippet.title,
     url |-> "https://www.youtube.com/watch?v=" \o search_result.id.videoId,
     channel |-> search_result.snippet.channelTitle,
     description |-> Get(search_result.snippet, "description", <<>>),
     depth |-> 0]
\* the dictionary built for one search result
VideoMetadata(search_result, depth) ==
    [title |-> search_result.snippet.title,
     url |-> "https://www.youtube.com/watch?v=" \o search_result.id.videoId,
     channel |-> search_result.snippet.channelTitle,
     description |-> Get(search_result.snippet, "description", <<>>),
     depth |-> depth]

\* (a variant with one index more)
InRangeInclusive(n, max_retries) == n <= max_retries
\* `for n in range(max_retries)`: is n an index of the loop
InRange(n, max_retries) == n < max_retries

\* (a variant that also recurses at max_depth)
ShouldRecurseInclusive(depth, max_depth) == depth <= max_depth
\* `if depth < max_depth`
ShouldRecurse(depth, max_depth) == depth < max_depth

\* (a variant that stays at the same depth)
ChildDepthSame(depth) == depth
\* the depth argument of the recursive call
ChildDepth(depth) == depth + 1

\* (a variant that puts the new records first)
ExtendFront(videos, more) == more \o videos
\* videos.extend(more)
Extend(videos, more) == videos \o more

\* (a variant without the `except Exception` clause)
HandlerNoCatchAll(exc) ==
    IF exc.kind = "HttpError"
    THEN IF exc.status = 403 /\ Contains(exc.content, "quotaExceeded") THEN "break"
         ELSE IF exc.status \in {403, 500, 503} THEN "retry"
         ELSE "break"
    ELSE "raise"
\* (a variant that tests the status list before the quota body)
HandlerStatusFirst(exc) ==
    IF exc.kind = "HttpError"
    THEN IF exc.status \in {403, 500, 503} THEN "retry"
         ELSE "break"
    ELSE "break"
\* the except clauses: "break" leaves the retry loop, "retry" sleeps and goes on,
\* "raise" means no clause matched and the exception leaves the call
Handler(exc) ==
    IF exc.kind = "HttpError"
    THEN IF exc.status = 403 /\ Contains(exc.content, "quotaExceeded") THEN "break"
         ELSE IF exc.status \in {403, 500, 503} THEN "retry"
         ELSE "break"
    ELSE "break"

\* (a variant with twice the jitter)
SleepTimeDouble(default_timeout, n, jitter) == default_timeout * (2 ^ n) + 2 * jitter
\* sleep_time, in milliseconds
SleepTime(default_timeout, n, jitter) == default_timeout * (2 ^ n) + jitter

\* q=keyword: the query is made from the variable `keyword` as it stands
QueryText(f) == f.keyword

\* (a variant that takes the last keyword)
NextKeywordLast(related_keywords) == related_keywords[Len(related_keywords)]
\* `for keyword in related_keywords`: the keyword of the next iteration
NextKeyword(related_keywords) == Head(related_keywords)

\* the locals of a call that has passed the api_key test and built its client
NewFrame(keyword, depth) ==
    [keyword |-> keyword,       \* the variable `keyword` (rebound by the inner loop)
     arg |-> keyword,           \* the keyword the call was invoked with
     depth |-> depth,
     n |-> 0,
     videos |-> <<>>,
     pc |-> IF InRange(0, params.max_retries) THEN "attempt" ELSE "returning",
     items |-> <<>>,            \* items of search_response not yet iterated
     related |-> <<>>,          \* related_keywords not yet iterated
     nq |-> 0,                  \* queries this call has issued
     q |-> <<>>,                \* the q of its latest query
     ns |-> 0,                  \* sleeps this call has started
     last |-> NoResponse,       \* how the query of the attempt in progress ended
     resp |-> <<>>,             \* the items of the successful response
     subres |-> <<>>]           \* per iterated item, its sub-calls so far: the keyword
                                \* each was invoked with and the list it returned

Top == stack[Len(stack)]
Below(stk) == SubSeq(stk, 1, Len(stk) - 1)
SetTop(stk, f) == [stk EXCEPT ![Len(stk)] = f]

\* where the call goes after an item, or after a sub-call of an item, is finished
Continue(f) ==
    IF f.related # <<>> THEN "related"
    ELSE IF f.items # <<>> THEN "items"
    ELSE "returning"

\* an exception raised inside the try block of the innermost call of stk: where
\* the calls stand once an except clause has taken it, or none has; retry tells
\* that the clause is the one that sleeps, n is the attempt index of its call
RECURSIVE Raise(_, _)
Raise(stk, exc) ==
    IF stk = <<>>
    THEN [stack |-> <<>>, status |-> "raised", retry |-> FALSE, n |-> 0]
    ELSE LET f == stk[Len(stk)]
             h == Handler(exc)
         IN  IF h = "break"
             THEN [stack |-> SetTop(stk, [f EXCEPT !.pc = "returning"]),
                   status |-> "running", retry |-> FALSE, n |-> f.n]
             ELSE IF h = "retry"
             THEN [stack |-> SetTop(stk, [f EXCEPT !.pc = "sleeping", !.ns = @ + 1]),
                   status |-> "running", retry |-> TRUE, n |-> f.n]
             ELSE Raise(Below(stk), exc)

\* the sleeps that can follow attempt n: one for each number random.randint can give
Sleeps(n) == [slept : {TRUE}, n : {n}, jitter : Randint]

\* the argument of the time.sleep in progress, in milliseconds
sleep_time == SleepTime(params.default_timeout, sleeping.n, sleeping.jitter)

\* entering search_videos_by_keyword(keyword, ..., depth, ...) from the frames stk
Enter(stk, keyword, depth) ==
    IF Falsy(params.api_key)
    THEN Raise(stk, [kind |-> "ValueError"])
    ELSE [stack |-> Append(stk, NewFrame(keyword, depth)),
          status |-> "running", retry |-> FALSE, n |-> 0]

\* the string-hash seeds that the records of the catalog tell apart
HashSeeds ==
    UNION {SeedsFor(AllTokens(m.title, m.description)) :
               m \in {VideoMetadata(search_result, 0) : search_result \in Catalog}}

ApiKeys == {NoneValue, "", "valid_key"}
Timeouts == {1500}
MaxResultsChoices == {2}

Init ==
    /\ status = "init"
    /\ params \in [keyword : {Text_cats}, max_results : MaxResultsChoices, depth : 0..1,
                   max_depth : 0..MaxDepth, api_key : ApiKeys,
                   max_retries : {1, MaxRetries}, default_timeout : Timeouts]
    /\ hashseed \in HashSeeds
    /\ stack = <<>>
    /\ result = <<>>
    /\ served = 0
    /\ sleeping = NoSleep
    /\ xin = [title |-> <<>>, description |-> <<>>]
    /\ xout = NotRun
    /\ main = NoMain

\* the top-level call
Call ==
    /\ status = "init"
    /\ LET e == Enter(<<>>, params.keyword, params.depth)
       IN  /\ stack' = e.stack
           /\ status' = e.status
    /\ UNCHANGED <<params, hashseed, result, served, sleeping, xin, xout, main>>

\* one attempt: the query, and on failure the except clause up to the sleep,
\* whose jitter is drawn on the retry branch only
Query ==
    /\ status = "running"
    /\ Top.pc = "attempt"
    /\ \/ \E exc \in Errors :
            /\ LET f == [Top EXCEPT !.nq = @ + 1, !.q = QueryText(Top), !.last = exc]
                   e == Raise(SetTop(stack, f), exc)
               IN  /\ stack' = e.stack
                   /\ status' = e.status
                   /\ IF e.retry
                      THEN sleeping' \in Sleeps(e.n)
                      ELSE UNCHANGED sleeping
                   /\ UNCHANGED served
       \/ \E r \in OkResponses(params.max_results) :
            LET items == Get(r.body, "items", <<>>)
                f == [Top EXCEPT !.nq = @ + 1, !.q = QueryText(Top), !.last = r, !.resp = items,
                                 !.items = items, !.related = <<>>, !.subres = <<>>]
            IN  /\ served + Len(items) <= MaxServed
                /\ served' = served + Len(items)
                /\ stack' = SetTop(stack, [f EXCEPT !.pc = Continue(f)])
                /\ UNCHANGED <<status, sleeping>>
    /\ UNCHANGED <<params, hashseed, result, xin, xout, main>>

\* time.sleep returns: the loop goes to its next index, or ends
Wake ==
    /\ status = "running"
    /\ Top.pc = "sleeping"
    /\ stack' = SetTop(stack,
            IF InRange(Top.n + 1, params.max_retries)
            THEN [Top EXCEPT !.n = @ + 1, !.pc = "attempt", !.last = NoResponse]
            ELSE [Top EXCEPT !.pc = "returning", !.last = NoResponse])
    /\ sleeping' = NoSleep
    /\ UNCHANGED <<status, params, hashseed, result, served, xin, xout, main>>

\* one iteration of `for search_result in items`, up to its first recursive call,
\* or up to the KeyError of a missing key, which `except Exception` handles
ProcessItem ==
    /\ status = "running"
    /\ Top.pc = "items"
    /\ LET search_result == Head(Top.items)
           video_metadata == VideoMetadata(search_result, Top.depth)
           related_keywords ==
               IF ShouldRecurse(Top.depth, params.max_depth)
               THEN extract_related_keywords(video_metadata, hashseed)
               ELSE <<>>
           f == [Top EXCEPT !.videos = Append(@, video_metadata),
                            !.items = Tail(@),
                            !.related = related_keywords,
                            !.subres = Append(@, <<>>)]
           exc == [kind |-> "KeyError"]
           e == Raise(SetTop(stack, [Top EXCEPT !.last = exc]), exc)
       IN  IF WellFormed(search_result)
           THEN /\ stack' = SetTop(stack, [f EXCEPT !.pc = Continue(f)])
                /\ UNCHANGED status
           ELSE /\ stack' = e.stack
                /\ status' = e.status
    /\ UNCHANGED <<params, hashseed, result, served, sleeping, xin, xout, main>>

\* one iteration of `for keyword in related_keywords`: the recursive call is entered
Recurse ==
    /\ status = "running"
    /\ Top.pc = "related"
    /\ LET keyword == NextKeyword(Top.related)
           f == [Top EXCEPT !.keyword = keyword, !.related = Tail(@), !.pc = "calling"]
           e == Enter(SetTop(stack, f), keyword, ChildDepth(Top.depth))
       IN  /\ stack' = e.stack
           /\ status' = e.status
    /\ UNCHANGED <<params, hashseed, result, served, sleeping, xin, xout, main>>

\* `return videos`: the caller extends its list, or the top-level call is done
Return ==
    /\ status = "running"
    /\ Top.pc = "returning"
    /\ IF Len(stack) = 1
       THEN /\ result' = Top.videos
            /\ status' = "done"
            /\ stack' = <<>>
       ELSE LET caller == stack[Len(stack) - 1]
                f == [caller EXCEPT
                        !.videos = Extend(@, Top.videos),
                        !.subres[Len(caller.subres)] =
                            Append(@, [keyword |-> Top.arg, videos |-> Top.videos])]
            IN  /\ stack' = SetTop(Below(stack), [f EXCEPT !.pc = Continue(f)])
                /\ UNCHANGED <<result, status>>
    /\ UNCHANGED <<params, hashseed, served, sleeping, xin, xout, main>>

Next == Call \/ Query \/ Wake \/ ProcessItem \/ Recurse \/ Return

Spec == Init /\ [][Next]_vars

\* the top-level calls checked for termination: made as main() makes them, at the
\* default depth 0, under every hash seed, with one or two results asked for per
\* query; the results per query, the depth limit and the attempts allowed are
\* bounded together
FairInit ==
    /\ status = "init"
    /\ params \in [keyword : {Text_cats}, max_results : {1} \cup MaxResultsChoices, depth : {0},
                   max_depth : 0..MaxDepth, api_key : ApiKeys,
                   max_retries : {1, MaxRetries}, default_timeout : Timeouts]
    /\ params.max_results * params.max_depth * params.max_retries <= MaxFairWork
    /\ hashseed \in HashSeeds
    /\ stack = <<>>
    /\ result = <<>>
    /\ served = 0
    /\ sleeping = NoSleep
    /\ xin = [title |-> <<>>, description |-> <<>>]
    /\ xout = NotRun
    /\ main = NoMain

\* the interpreter always takes the next step of the running call: execute() and
\* time.sleep() return, and the code between them does not block
SpecFair == FairInit /\ [][Next]_vars /\ WF_vars(Next)

-----------------------------------------------------------------------------
(* The script: load_config, validate_config and main *)

\* JSON values, tagged with their Python type; a number of type float is held in
\* thousandths.  Absent stands for a key that the object does not have.
Absent == [type |-> "absent"]
Null == [type |-> "null"]
StrValue(s) == [type |-> "str", val |-> s]
IntValue(i) == [type |-> "int", val |-> i]
FloatValue(thousandths) == [type |-> "float", val |-> thousandths]
ListValue(xs) == [type |-> "list", val |-> xs]

\* `key in config`
HasKey(config, key) == config[key] # Absent

\* config.get(key): None when the key is absent
ConfigGet(config, key) == IF HasKey(config, key) THEN config[key] ELSE Null

\* config.get(key, default)
ConfigGetOr(config, key, default) == IF HasKey(config, key) THEN config[key] ELSE default

\* the truth value of a Python object
Truthy(v) ==
    CASE v.type = "null" -> FALSE
      [] v.type = "str" -> v.val # ""
      [] v.type = "list" -> v.val # <<>>
      [] OTHER -> v.val # 0

\* isinstance(v, str), isinstance(v, list), isinstance(v, int), isinstance(v, (int, float))
IsStr(v) == v.type = "str"
IsList(v) == v.type = "list"
IsInt(v) == v.type = "int"
IsNumber(v) == v.type \in {"int", "float"}

\* a number in thousandths, whatever its type
Thousandths(v) == IF v.type = "int" THEN v.val * 1000 ELSE v.val

\* how a function ends
Returned(value) == [raised |-> FALSE, value |-> value]
Raised(exception) == [raised |-> TRUE, exception |-> exception]

required_keys == <<"keywords", "max_results_per_keyword", "requests_per_second", "max_depth">>

\* load_config(), given what config.json is: missing, not JSON, or a JSON object
load_config(file) ==
    IF file.kind = "missing" THEN Raised("FileNotFoundError")
    ELSE IF file.kind = "text" THEN Raised("JSONDecodeError")
    ELSE LET config == file.value
             api_key == ConfigGet(config, "api_key")
             missing_keys == SelectSeq(required_keys, LAMBDA key : ~HasKey(config, key))
         IN  IF ~Truthy(api_key) THEN Raised("ValueError")
             ELSE IF missing_keys # <<>> THEN Raised("ValueError")
             ELSE Returned(config)

\* the seven tests of validate_config, in order
ApiKeyBad(config) ==
    LET api_key == ConfigGet(config, "api_key")
    IN  ~Truthy(api_key) \/ ~IsStr(api_key)
KeywordsBad(config) ==
    LET keywords == ConfigGet(config, "keywords")
    IN  ~Truthy(keywords) \/ ~IsList(keywords)
MaxResultsBad(config) ==
    LET max_results_per_keyword == ConfigGet(config, "max_results_per_keyword")
    IN  ~IsInt(max_results_per_keyword) \/ max_results_per_keyword.val < 1
RequestsPerSecondBad(config) ==
    LET requests_per_second == ConfigGet(config, "requests_per_second")
    IN  ~IsNumber(requests_per_second) \/ requests_per_second.val < 0
\* (a variant that does not test max_depth)
MaxDepthUnchecked(config) == FALSE
\* `not isinstance(max_depth, int) or max_depth < 1`
MaxDepthBad(config) ==
    LET max_depth == ConfigGet(config, "max_depth")
    IN  ~IsInt(max_depth) \/ max_depth.val < 1
MaxRetriesBad(config) ==
    LET max_retries == ConfigGet(config, "max_retries")
    IN  ~IsInt(max_retries) \/ max_retries.val < 1
DefaultTimeoutBad(config) ==
    LET default_timeout == ConfigGet(config, "default_timeout")
    IN  ~IsNumber(default_timeout) \/ default_timeout.val < 0

\* validate_config(config): returns None or raises ValueError
validate_config(config) ==
    IF \/ ApiKeyBad(config) \/ KeywordsBad(config) \/ MaxResultsBad(config)
       \/ RequestsPerSecondBad(config) \/ MaxDepthBad(config)
       \/ MaxRetriesBad(config) \/ DefaultTimeoutBad(config)
    THEN Raised("ValueError")
    ELSE Returned(Null)

\* what config.json can hold, key by key
ApiKeyValues == {StrValue("valid_key"), StrValue(""), IntValue(7), Absent}
KeywordsValues == {ListValue(<<Text_cats, Text_b>>), ListValue(<<>>), Null, Absent}
MaxResultsValues == {IntValue(2), IntValue(0), FloatValue(2000), Absent}
RequestsPerSecondValues == {IntValue(2), IntValue(0), IntValue(-1), Absent}
MaxDepthValues == {IntValue(1), IntValue(0), Absent}
MaxRetriesValues == {IntValue(1), IntValue(0), Absent}
DefaultTimeoutValues == {FloatValue(1500), IntValue(-1), Absent}

Configs ==
    [api_key : ApiKeyValues, keywords : KeywordsValues,
     max_results_per_keyword : MaxResultsValues,
     requests_per_second : RequestsPerSecondValues, max_depth : MaxDepthValues,
     max_retries : MaxRetriesValues, default_timeout : DefaultTimeoutValues]

ConfigFiles ==
    {[kind |-> "missing"], [kind |-> "text"]} \cup {[kind |-> "json", value |-> c] : c \in Configs}

NotWritten == [written |-> FALSE, records |-> <<>>]

MainInit ==
    /\ main \in [pc : {"start"}, file : ConfigFiles, config : {Null}, error : {"none"},
                 sleep_time : {0}, next : {1}, all_videos : {<<>>}, slept : {<<>>},
                 out : {NotWritten}]
    /\ status = "init"
    /\ params = DefaultParams
    /\ hashseed \in HashSeeds
    /\ stack = <<>>
    /\ result = <<>>
    /\ served = 0
    /\ sleeping = NoSleep
    /\ xin = [title |-> <<>>, description |-> <<>>]
    /\ xout = NotRun

\* config = load_config(): an exception of load_config leaves main
MainLoadConfig ==
    /\ main.pc = "start"
    /\ LET r == load_config(main.file)
       IN  main' = IF r.raised
                   THEN [main EXCEPT !.pc = "load_failed", !.error = r.exception]
                   ELSE [main EXCEPT !.pc = "loaded", !.config = r.value]
    /\ UNCHANGED <<status, params, hashseed, stack, result, served, sleeping, xin, xout>>

\* validate_config(config) under `except ValueError`: log and return
MainValidateConfig ==
    /\ main.pc = "loaded"
    /\ LET r == validate_config(main.config)
       IN  main' = IF r.raised
                   THEN [main EXCEPT !.pc = "invalid", !.error = r.exception]
                   ELSE [main EXCEPT !.pc = "validated"]
    /\ UNCHANGED <<status, params, hashseed, stack, result, served, sleeping, xin, xout>>

\* lines 181-191: the settings are read, with defaults for the last two, and the
\* delay between seeds is computed (in milliseconds); 1 / 0 raises
MainSettings ==
    /\ main.pc = "validated"
    /\ LET config == main.config
           requests_per_second == config["requests_per_second"]
           max_retries == ConfigGetOr(config, "max_retries", IntValue(5))
           default_timeout == ConfigGetOr(config, "default_timeout", IntValue(1))
       IN  IF requests_per_second.val = 0
           THEN /\ main' = [main EXCEPT !.pc = "crashed", !.error = "ZeroDivisionError"]
                /\ UNCHANGED params
           ELSE /\ main' = [main EXCEPT
                               !.pc = "loop",
                               !.sleep_time = (1000 * 1000) \div Thousandths(requests_per_second)]
                /\ params' = [keyword |-> <<>>,
                              max_results |-> config["max_results_per_keyword"].val,
                              depth |-> 0,
                              max_depth |-> config["max_depth"].val,
                              api_key |-> config["api_key"].val,
                              max_retries |-> max_retries.val,
                              default_timeout |-> Thousandths(default_timeout)]
    /\ UNCHANGED <<status, hashseed, stack, result, served, sleeping, xin, xout>>

\* `for keyword in keywords`: the next seed is searched, from depth 0
MainSearch ==
    /\ main.pc = "loop"
    /\ main.next <= Len(main.config["keywords"].val)
    /\ LET keyword == main.config["keywords"].val[main.next]
           e == Enter(<<>>, keyword, params.depth)
       IN  /\ params' = [params EXCEPT !.keyword = keyword]
           /\ stack' = e.stack
           /\ status' = e.status
           /\ main' = [main EXCEPT !.pc = IF e.status = "raised" THEN "crashed" ELSE "searching",
                                   !.error = IF e.status = "raised" THEN "ValueError" ELSE @]
    /\ UNCHANGED <<hashseed, result, served, sleeping, xin, xout>>

\* the search has returned: all_videos.extend(videos), the log, time.sleep(sleep_time)
MainCollect ==
    /\ main.pc = "searching"
    /\ status = "done"
    /\ main' = [main EXCEPT !.pc = "loop",
                            !.all_videos = Extend(@, result),
                            !.slept = Append(@, main.sleep_time),
                            !.next = @ + 1]
    /\ status' = "init"
    /\ result' = <<>>
    /\ UNCHANGED <<params, hashseed, stack, served, sleeping, xin, xout>>

\* after the last seed: search_results.txt is written, one record per line
MainSave ==
    /\ main.pc = "loop"
    /\ main.next > Len(main.config["keywords"].val)
    /\ main' = [main EXCEPT !.pc = "completed",
                            !.out = [written |-> TRUE, records |-> main.all_videos]]
    /\ UNCHANGED <<status, params, hashseed, stack, result, served, sleeping, xin, xout>>

MainNext ==
    \/ MainLoadConfig \/ MainValidateConfig \/ MainSettings \/ MainSearch
    \/ Query \/ Wake \/ ProcessItem \/ Recurse \/ Return
    \/ MainCollect \/ MainSave

SpecMain == MainInit /\ [][MainNext]_vars

-----------------------------------------------------------------------------
(* Properties of the controller, checked under Spec *)

\* the calls in progress, outermost first
Calls == DOMAIN stack

\* the call's own query has succeeded, and no item of the response has raised
Succeeded(f) == f.last.kind = "ok"

\* the call's latest query has failed
Failed(f) == f.last.kind \in {"HttpError", "Exception"}

\* per hash seed and item of the catalog, the keywords extracted from its record:
\* the rows <<seed, item, keywords>>
KeywordTable ==
    {<<seed, search_result, extract_related_keywords(VideoMetadata(search_result, 0), seed)>> :
         seed \in HashSeeds, search_result \in Catalog}

\* the keywords an item yields, as the call that iterates it would extract them
KeywordsOf(search_result, depth) ==
    (CHOOSE row \in KeywordTable : row[1] = hashseed /\ row[2] = search_result)[3]

\* C1: every sub-call runs at its caller's depth plus one; when the top-level
\* depth is at most max_depth no call runs deeper than max_depth; and a call at
\* depth max_depth has no sub-call, in progress or returned, whatever its items.
C1_DepthDiscipline ==
    /\ \A i \in 2..Len(stack) : stack[i].depth = stack[i - 1].depth + 1
    /\ \A i \in 1..Len(stack) : i = 1 => stack[i].depth = params.depth
    /\ params.depth <= params.max_depth =>
           \A c \in Calls : LET f == stack[c] IN f.depth <= params.max_depth
    /\ \A i \in 1..Len(stack) :
           stack[i].depth = params.max_depth =>
               /\ i = Len(stack)
               /\ stack[i].pc \notin {"related", "calling"}
               /\ \A j \in DOMAIN stack[i].subres : stack[i].subres[j] = <<>>

\* a sub-call at depth max_depth returns after iterating an item that yields keywords
C1_Witness ==
    /\ Len(stack) >= 2
    /\ Top.depth = params.max_depth
    /\ Top.pc = "returning"
    /\ Len(Top.subres) = Len(Top.resp)
    /\ \E j \in DOMAIN Top.resp : KeywordsOf(Top.resp[j], Top.depth) # <<>>

\* every iterated item of f has had all of its sub-calls
Completed(f) ==
    /\ Len(f.subres) = Len(f.resp)
    /\ \A j \in DOMAIN f.resp :
           Len(f.subres[j]) =
               IF f.depth < params.max_depth
               THEN Len(KeywordsOf(f.resp[j], f.depth)) ELSE 0

\* C2: with a non-empty api_key no failure leaves search_videos_by_keyword: the
\* run never ends by an exception, a failed call reaches its return, and a call
\* whose query succeeded returns only after every sub-call of every item.
C2_FailureContained ==
    ~Falsy(params.api_key) =>
        /\ status # "raised"
        /\ \A c \in Calls : LET f == stack[c] IN
               /\ Failed(f) => f.pc \in {"sleeping", "returning"}
               /\ (Succeeded(f) /\ f.pc = "returning") => Completed(f)
        /\ \A i \in 1..(Len(stack) - 1) : Succeeded(stack[i]) /\ stack[i].pc = "calling"

\* a sub-call returns after a failed query while its caller still has a keyword to go
C2_Witness ==
    /\ Len(stack) >= 2
    /\ Top.pc = "returning"
    /\ Failed(Top)
    /\ stack[Len(stack) - 1].related # <<>>
    /\ stack[Len(stack) - 1].items # <<>>

RECURSIVE ConcatVideos(_)
ConcatVideos(subs) ==
    IF subs = <<>> THEN <<>> ELSE subs[1].videos \o ConcatVideos(Tail(subs))

\* record(i1), the results of i1's sub-calls, record(i2), ... in response order
RECURSIVE PreOrder(_, _, _)
PreOrder(resp, subres, depth) ==
    IF resp = <<>> THEN <<>>
    ELSE <<VideoMetadata(resp[1], depth)>> \o ConcatVideos(subres[1])
             \o PreOrder(Tail(resp), Tail(subres), depth)

\* C3: a call whose query succeeded returns the pre-order flattening of its
\* items and their sub-calls' results, the sub-calls of an item being those of
\* its extracted keywords in extraction order; only the innermost call runs.
C3_PreOrderFlattening ==
    /\ \A c \in Calls : LET f == stack[c] IN
           (Succeeded(f) /\ f.pc = "returning") =>
               /\ Len(f.subres) = Len(f.resp)
               /\ f.videos = PreOrder(f.resp, f.subres, f.depth)
               /\ \A j \in DOMAIN f.resp :
                      f.depth < params.max_depth =>
                          [k \in DOMAIN f.subres[j] |-> f.subres[j][k].keyword]
                              = KeywordsOf(f.resp[j], f.depth)
    /\ \A i \in 1..(Len(stack) - 1) : stack[i].pc = "calling"

\* a call returns two records, the first followed by a non-empty sub-call result
C3_Witness ==
    /\ stack # <<>>
    /\ Top.pc = "returning"
    /\ Succeeded(Top)
    /\ Len(Top.resp) = 2
    /\ Len(Top.subres[1]) = 2
    /\ Top.subres[1][1].videos # <<>>
    /\ Len(Top.videos) = 3

\* the failures after which the call is to try again: a 403 that is not quota
\* exhaustion, a 500 or a 503
IsQuotaExhaustion(exc) ==
    exc.kind = "HttpError" /\ exc.status = 403 /\ Contains(exc.content, "quotaExceeded")

IsRetryable(exc) ==
    /\ exc.kind = "HttpError"
    /\ exc.status \in {403, 500, 503}
    /\ ~IsQuotaExhaustion(exc)

\* C4: a call issues at most max_retries queries; it is at attempt n > 0 only
\* after n queries that each ended in a sleep, which follows retryable failures
\* only; and after a successful query it issues no other query.
C4_AttemptsBounded ==
    \A c \in Calls : LET f == stack[c] IN
        /\ f.nq <= params.max_retries
        /\ f.n < params.max_retries
        /\ f.pc = "attempt" => (f.nq = f.n /\ f.ns = f.n /\ f.last = NoResponse)
        /\ f.pc = "sleeping" => (IsRetryable(f.last) /\ f.nq = f.n + 1 /\ f.ns = f.n + 1)
        /\ Succeeded(f) =>
               /\ f.pc \in {"items", "related", "calling", "returning"}
               /\ f.nq = f.n + 1
               /\ f.ns = f.n

\* a call returns with success from its second query
C4_Witness ==
    /\ stack # <<>>
    /\ Top.pc = "returning"
    /\ Succeeded(Top)
    /\ Top.nq = 2
    /\ Top.videos # <<>>

\* C5: after quota exhaustion, an HTTP status other than 403/500/503 or a
\* non-HTTP exception the call sleeps no more and queries no more and returns
\* its list; quota exhaustion at the first attempt returns the empty list after
\* one query; only the retryable failures are followed by a sleep.
C5_NonRetryableStops ==
    \A c \in Calls : LET f == stack[c] IN
        Failed(f) =>
            IF IsRetryable(f.last)
            THEN /\ f.ns = f.nq
                 /\ f.pc = "sleeping"
            ELSE /\ f.pc = "returning"
                 /\ f.ns = f.nq - 1
                 /\ f = Top /\ sleeping = NoSleep
                 /\ f.videos = <<>>
                 /\ (IsQuotaExhaustion(f.last) /\ f.n = 0) => (f.nq = 1 /\ f.ns = 0)

\* a sub-call returns the empty list after quota exhaustion at its first query
C5_Witness ==
    /\ Len(stack) >= 2
    /\ Top.pc = "returning"
    /\ IsQuotaExhaustion(Top.last)
    /\ Top.nq = 1
    /\ Top.videos = <<>>
\* the least sleep before the retry after attempt n: default_timeout * 2^n, in ms
BackoffBase(n) == params.default_timeout * (2 ^ n)

\* C6 as stated: every sleep lasts at least default_timeout * 2^n and strictly less
\* than one second more (the jitter is below 1000 ms).
C6_JitterBelowOneSecond ==
    sleeping.slept =>
        /\ BackoffBase(sleeping.n) <= sleep_time
        /\ sleep_time < BackoffBase(sleeping.n) + 1000

\* C6, amended: every sleep, taken by the innermost call after the retryable
\* failure of its attempt n, lasts at least default_timeout * 2^n and at most
\* one second more (the jitter is between 0 and 1000 ms, both included).
C6_JitterAtMostOneSecond ==
    sleeping.slept =>
        /\ stack # <<>> /\ Top.pc = "sleeping" /\ sleeping.n = Top.n
        /\ IsRetryable(Top.last)
        /\ BackoffBase(sleeping.n) <= sleep_time
        /\ sleep_time <= BackoffBase(sleeping.n) + 1000

\* a sleep after the second attempt that lasts exactly default_timeout * 2 + 1 s
C6_Witness ==
    /\ sleeping.slept
    /\ sleeping.n = 1
    /\ params.default_timeout > 0
    /\ sleep_time = BackoffBase(1) + 1000

\* C7 as stated: a call sleeps only when another attempt follows, so it never
\* sleeps after its last permitted attempt and sleeps at most max_retries - 1 times.
C7_SleepOnlyBeforeRetry ==
    \A c \in Calls : LET f == stack[c] IN
        /\ f.pc = "sleeping" => f.n + 1 < params.max_retries
        /\ f.ns <= params.max_retries - 1

\* the iterated items of f: each with the sub-calls it has had so far
Iterated(f) == DOMAIN f.subres

\* C8: extract_related_keywords gives nothing for a record with an empty
\* description, whatever its title; and an item whose description is empty or
\* absent never has a sub-call, in progress or returned.
C8_EmptyDescriptionPrunes ==
    /\ status = "init" =>
           \A t \in Titles :
               extract_related_keywords([title |-> t, description |-> <<>>], hashseed) = <<>>
    /\ \A c \in Calls : LET f == stack[c] IN
           \A j \in Iterated(f) :
               LET item == f.resp[j]
                   absent == "description" \notin DOMAIN item.snippet
                   empty == ~absent /\ item.snippet.description = <<>>
               IN  (absent \/ empty) =>
                       /\ KeywordsOf(item, f.depth) = <<>>
                       /\ f.subres[j] = <<>>
                       /\ j = Len(f.subres) => f.pc \notin {"related", "calling"}

\* below max_depth a call has iterated an item with a title of words and an empty
\* description, and one with no description, and returns
C8_Witness ==
    /\ stack # <<>>
    /\ Top.pc = "returning"
    /\ Top.depth < params.max_depth
    /\ Len(Top.subres) = 2
    /\ \E j \in DOMAIN Top.resp :
           /\ "description" \in DOMAIN Top.resp[j].snippet
           /\ Top.resp[j].snippet.description = <<>>
           /\ FindAllWords(Lower(Top.resp[j].snippet.title)) # <<>>
    /\ \E j \in DOMAIN Top.resp : "description" \notin DOMAIN Top.resp[j].snippet

-----------------------------------------------------------------------------
(* Depth tags, checked under Spec *)

\* the number of records the sub-calls of one item have returned
RECURSIVE SubLen(_)
SubLen(subs) == IF subs = <<>> THEN 0 ELSE Len(subs[1].videos) + SubLen(Tail(subs))

\* where the record of the j-th iterated item stands in the list of the call
RECURSIVE OwnIndex(_, _)
OwnIndex(subres, j) ==
    IF j = 1 THEN 1 ELSE OwnIndex(subres, j - 1) + 1 + SubLen(subres[j - 1])

\* C11: the c-th call of the stack, c - 1 hops below the top-level call, has
\* depth = top-level depth + c - 1;
\* the record of each item it iterates carries that depth, and the records its
\* sub-calls returned carry a larger one; every record's depth lies between the
\* top-level depth and max_depth; and a top-level call at depth 0 with
\* max_depth = 0 has no sub-call and returns, after a successful query, exactly
\* one record of depth 0 per item of the response, in order.
C11_DepthTags ==
    /\ \A c \in Calls : LET f == stack[c] IN
           /\ f.depth = params.depth + (c - 1)
           /\ \A j \in Iterated(f) : f.videos[OwnIndex(f.subres, j)].depth = f.depth
           /\ \A j \in Iterated(f) : \A k \in DOMAIN f.subres[j] :
                  \A i \in DOMAIN f.subres[j][k].videos :
                      f.subres[j][k].videos[i].depth > f.depth
           /\ \A i \in DOMAIN f.videos :
                  /\ f.videos[i].depth >= f.depth
                  /\ params.depth <= params.max_depth => f.videos[i].depth <= params.max_depth
    /\ \A i \in DOMAIN result :
           /\ result[i].depth >= params.depth
           /\ params.depth <= params.max_depth => result[i].depth <= params.max_depth
    /\ (params.max_depth = 0 /\ params.depth = 0) =>
           /\ Len(stack) <= 1
           /\ \A i \in DOMAIN result : result[i].depth = 0
           /\ \A c \in Calls : LET f == stack[c] IN
                  (Succeeded(f) /\ f.pc = "returning") =>
                      /\ Len(f.videos) = Len(f.resp)
                      /\ \A j \in DOMAIN f.resp :
                             /\ f.videos[j].depth = 0
                             /\ f.videos[j].title = f.resp[j].snippet.title
                             /\ f.videos[j].url =
                                    "https://www.youtube.com/watch?v=" \o f.resp[j].id.videoId

\* a top-level call at depth 0 has returned records of depth 0, 1 and 2
C11_Witness ==
    /\ status = "done"
    /\ params.depth = 0
    /\ params.max_depth = 2
    /\ \A d \in 0..2 : \E i \in DOMAIN result : result[i].depth = d

\* p is an initial part of s
IsPrefix(p, s) == Len(p) <= Len(s) /\ SubSeq(s, 1, Len(p)) = p

\* the keywords of item j of f for which a sub-call has returned, in order
ReturnedKeywords(f, j) == [k \in DOMAIN f.subres[j] |-> f.subres[j][k].keyword]

\* C12 as stated: with max_retries = 1 the order in which the keywords of an
\* item are iterated is a function of the item alone: the sub-calls of an item
\* follow the order that a run under any string-hash seed extracts.
C12_OrderFunctionOfItem ==
    params.max_retries = 1 =>
        \A c \in Calls : LET f == stack[c] IN
            \A j \in Iterated(f) :
                f.depth < params.max_depth =>
                    \A seed \in HashSeeds :
                        IsPrefix(ReturnedKeywords(f, j),
                                 extract_related_keywords(VideoMetadata(f.resp[j], f.depth), seed))

\* C16: a top-level call with an absent (None) or empty api_key ends by raising:
\* it never returns a list, no frame is ever set up for it (the test precedes the
\* construction of the client), it issues no query and does not sleep; and a
\* call with any other api_key never ends by raising.
C16_CredentialErrorPropagates ==
    IF params.api_key \in {NoneValue, ""}
    THEN /\ status \in {"init", "raised"}
         /\ stack = <<>>
         /\ served = 0
         /\ result = <<>>
         /\ sleeping = NoSleep
    ELSE status # "raised"

\* the call with the empty string as api_key has raised
C16_Witness ==
    /\ params.api_key = ""
    /\ status = "raised"
    /\ stack = <<>>

\* C18 as stated: the list of a call is empty at the start of every attempt, and
\* a call that ends through a failure path (anything but the return that follows
\* the full iteration of a successful response) returns the empty list.
C18_FreshAccumulator ==
    \A c \in Calls : LET f == stack[c] IN
        /\ f.pc = "attempt" => f.videos = <<>>
        /\ (f.pc = "returning" /\ ~Succeeded(f)) => f.videos = <<>>

\* the keywords of the item f is iterating that are still to come, preceded by
\* the one whose sub-call is in progress
PendingKeywords(f) ==
    (IF f.pc = "calling" THEN <<f.keyword>> ELSE <<>>) \o f.related

\* C20: every query of a call has the keyword the call was invoked with as its
\* text; the variable `keyword` is rebound only after the call's query has
\* succeeded, and from then on the call issues no query (its queries stay at
\* n + 1); the sub-call in progress was invoked with the keyword its caller is
\* iterating; and the sub-calls of an item, returned, in progress and to come,
\* are those of its extracted keywords, one each, in extraction order.
C20_QueryUsesOwnKeyword ==
    \A c \in Calls : LET f == stack[c] IN
           /\ f.nq > 0 => f.q = f.arg
           /\ f.pc \in {"attempt", "sleeping"} => f.keyword = f.arg
           /\ f.keyword # f.arg =>
                  /\ f.last.kind \in {"ok", "KeyError"}
                  /\ f.pc \in {"items", "related", "calling", "returning"}
                  /\ f.nq = f.n + 1
           /\ c > 1 => /\ stack[c - 1].pc = "calling"
                       /\ f.arg = stack[c - 1].keyword
           /\ f.depth < params.max_depth =>
                  \A j \in Iterated(f) :
                      ReturnedKeywords(f, j)
                              \o (IF j = Len(f.subres) THEN PendingKeywords(f) ELSE <<>>)
                          = KeywordsOf(f.resp[j], f.depth)

\* a call that succeeded at its second query returns after two sub-calls of one
\* item, its variable `keyword` rebound
C20_Witness ==
    /\ stack # <<>>
    /\ Top.pc = "returning"
    /\ Top.nq = 2
    /\ Top.q = Top.arg
    /\ Top.keyword # Top.arg
    /\ Len(Top.subres) = 1
    /\ Len(Top.subres[1]) = 2

-----------------------------------------------------------------------------
(* Termination, checked under SpecFair *)

\* the calls in progress below call c
LevelsBelow(c) == Len(stack) - c

\* the levels the recursion may still add below a call at depth d
LevelsLeft(d) == IF d < params.max_depth THEN params.max_depth - d ELSE 0

\* the top-level call has ended: by returning, or with a missing api_key by raising
Ended ==
    /\ stack = <<>>
    /\ status = IF params.api_key \in {NoneValue, ""} THEN "raised" ELSE "done"

\* the most keywords an item yields: the keywords per item are finitely many
MaxKeywordsPerItem ==
    LET lens == {Len(row[3]) : row \in KeywordTable}
    IN  CHOOSE k \in lens : \A l \in lens : l <= k

\* the most steps a call entered at depth d takes up to its return, its sub-calls
\* included: two per attempt (the query and the sleep), one per item of a response
\* of at most max_results items, below max_depth one per keyword of an item and
\* those of its sub-call, and the return
CallWork(d) ==
    LET w[k \in Nat] ==
            2 * params.max_retries
                + params.max_results
                    * (1 + IF k < params.max_depth
                           THEN MaxKeywordsPerItem * (1 + w[k + 1]) ELSE 0)
                + 1
    IN  w[d]

\* the most steps one item of a call at depth d takes: its record, its sub-calls
ItemWork(d) ==
    1 + IF d < params.max_depth THEN MaxKeywordsPerItem * (1 + CallWork(d + 1)) ELSE 0

\* the most steps the call f still takes itself, the sub-call in progress left out
FrameWork(f) ==
    CASE f.pc = "attempt" ->
             2 * (params.max_retries - f.n) + params.max_results * ItemWork(f.depth) + 1
      [] f.pc = "sleeping" ->
             1 + 2 * (params.max_retries - f.n - 1)
                 + params.max_results * ItemWork(f.depth) + 1
      [] f.pc \in {"items", "related", "calling"} ->
             Len(f.items) * ItemWork(f.depth)
                 + Len(f.related) * (1 + CallWork(f.depth + 1)) + 1
      [] f.pc = "returning" -> 1

\* the most steps the top-level call still takes: a measure made of the attempts
\* left, the items and keywords still to iterate and the levels left, and of
\* nothing else (the number of items the API has served is no part of it)
RemainingWork ==
    IF status = "init" THEN 1 + CallWork(params.depth)
    ELSE LET sum[i \in 0..Len(stack)] ==
                 IF i = 0 THEN 0 ELSE FrameWork(stack[i]) + sum[i - 1]
         IN  sum[Len(stack)]

\* C19: at all times the recursion below a call at depth d is at most
\* max_depth - d levels deep; every step of the call lowers RemainingWork, a
\* natural number bounded by max_retries, max_results, the keywords per item and
\* max_depth; and every top-level call ends, whatever the API answers: with a
\* non-empty api_key it reaches its return.
C19_Terminates ==
    /\ [](\A c \in Calls : LevelsBelow(c) <= LevelsLeft(stack[c].depth))
    /\ [][RemainingWork' < RemainingWork /\ RemainingWork' >= 0]_vars
    /\ <>Ended

\* a top-level call has returned records from two levels below it
C19_Witness ==
    /\ status = "done"
    /\ stack = <<>>
    /\ params.max_depth = 2
    /\ \E i \in DOMAIN result : result[i].depth = params.depth + 2

-----------------------------------------------------------------------------
(* Properties of the script, checked under SpecMain *)

\* the object in config.json (Null when the file is missing or is not JSON)
FileConfig == IF main.file.kind = "json" THEN main.file.value ELSE Null

IsJson == main.file.kind = "json"

\* the field is present and is a number of the given kind, at least low
IntAtLeast(v, low) == v.type = "int" /\ v.val >= low
NumberAtLeast(v, low) == v.type \in {"int", "float"} /\ v.val >= low

\* the five required fields are present, typed and in range
RequiredFieldsValid(config) ==
    /\ config.api_key.type = "str" /\ config.api_key.val # ""
    /\ config.keywords.type = "list" /\ config.keywords.val # <<>>
    /\ IntAtLeast(config.max_results_per_keyword, 1)
    /\ NumberAtLeast(config.requests_per_second, 0)
    /\ IntAtLeast(config.max_depth, 1)

\* the two fields with a default are absent, or typed and in range
OptionalFieldsValid(config) ==
    /\ config.max_retries = Absent \/ IntAtLeast(config.max_retries, 1)
    /\ config.default_timeout = Absent \/ NumberAtLeast(config.default_timeout, 0)

\* main is past validate_config
PastValidation == main.pc \in {"validated", "crashed", "loop", "searching", "completed"}

\* the seeds whose search has been started
Searched ==
    SubSeq(main.config.keywords.val, 1,
           IF main.pc = "searching" THEN main.next ELSE main.next - 1)

\* C13 as stated: once load_config and validate_config have accepted the
\* configuration main raises nothing: it searches the seeds one by one in
\* configuration order from depth 0, sleeps once after each, and when it has
\* completed every seed has been searched and the results file is written.
C13_MainCompletes ==
    PastValidation =>
        /\ main.pc # "crashed"
        /\ main.error = "none"
        /\ main.pc \in {"loop", "searching", "completed"} =>
               /\ IsPrefix(Searched, main.config.keywords.val)
               /\ Len(main.slept) = main.next - 1
               /\ main.pc = "searching" =>
                      /\ params.keyword = main.config.keywords.val[main.next]
                      /\ stack # <<>> => stack[1].depth = 0
               /\ main.pc = "completed" =>
                      /\ Searched = main.config.keywords.val
                      /\ main.out.written

\* C14 as stated: a configuration that omits max_retries or default_timeout and
\* is valid otherwise is accepted, and the crawl runs with max_retries = 5,
\* respectively default_timeout = 1 second.
C14_OptionalFieldsDefaulted ==
    (/\ IsJson
     /\ RequiredFieldsValid(FileConfig) /\ OptionalFieldsValid(FileConfig)
     /\ FileConfig.max_retries = Absent \/ FileConfig.default_timeout = Absent) =>
        /\ main.pc \notin {"load_failed", "invalid"}
        /\ main.pc \in {"loop", "searching", "completed"} =>
               /\ FileConfig.max_retries = Absent => params.max_retries = 5
               /\ FileConfig.default_timeout = Absent => params.default_timeout = 1000

\* no search has been started, nothing has been asked of the API, no file written
NothingDone ==
    /\ stack = <<>>
    /\ status = "init"
    /\ served = 0
    /\ main.next = 1
    /\ main.all_videos = <<>>
    /\ main.slept = <<>>
    /\ main.out = NotWritten

\* C15: when load_config raises or validate_config rejects, main has issued no
\* query and written no file, and never does; and a configuration file that is
\* missing, is not JSON, or lacks or mistypes or has out of range one of the
\* fields (an empty api_key, a max_depth of 0, ...) never gets past validation.
C15_ConfigErrorsBeforeCrawl ==
    /\ main.pc \in {"start", "loaded", "load_failed", "invalid", "validated"} => NothingDone
    /\ main.pc \in {"load_failed", "invalid"} => main.error # "none"
    /\ (~IsJson \/ ~RequiredFieldsValid(FileConfig) \/ ~OptionalFieldsValid(FileConfig)) =>
           /\ ~PastValidation
           /\ NothingDone

\* main has returned after validate_config rejected a configuration that
\* load_config had returned: its max_depth is 0, the rest is valid
C15_Witness ==
    /\ main.pc = "invalid"
    /\ main.error = "ValueError"
    /\ main.config.max_depth = IntValue(0)
    /\ RequiredFieldsValid([main.config EXCEPT !.max_depth = IntValue(1)])
    /\ OptionalFieldsValid(main.config)
    /\ main.config.max_retries # Absent /\ main.config.default_timeout # Absent
    /\ NothingDone

\* C17 as stated: whenever config.json is JSON with a non-empty api_key,
\* load_config returns the object as it is, without raising.
C17_LoadReturnsConfig ==
    (/\ IsJson
     /\ FileConfig.api_key.type = "str" /\ FileConfig.api_key.val # ""
     /\ main.pc # "start") =>
        /\ main.pc # "load_failed"
        /\ main.config = FileConfig

-----------------------------------------------------------------------------
(* Properties of the extractor, checked under SpecExtract *)

\* the word tokens of s: the maximal runs of word characters, each from a place
\* where a run starts to the nearest place at or after it where a run ends
WordTokens(s) ==
    LET starts == {i \in DOMAIN s : IsWordChar(s[i]) /\ (i = 1 \/ ~IsWordChar(s[i - 1]))}
        ends == {j \in DOMAIN s : IsWordChar(s[j]) /\ (j = Len(s) \/ ~IsWordChar(s[j + 1]))}
    IN  {SubSeq(s, i, CHOOSE j \in ends : j >= i /\ \A k \in ends : k >= i => j <= k) :
            i \in starts}

IsExample(video_metadata) == video_metadata = ExampleRecord

\* {python, programming, tutorial, learn, from, scratch, in, this}
ExampleKeywords ==
    { <<"p","y","t","h","o","n">>, <<"p","r","o","g","r","a","m","m","i","n","g">>,
      <<"t","u","t","o","r","i","a","l">>, <<"l","e","a","r","n">>,
      <<"f","r","o","m">>, <<"s","c","r","a","t","c","h">>,
      <<"i","n">>, <<"t","h","i","s">> }

\* what tests.py expects: python, programming, tutorial, learn, scratch
TestExpectedKeywords ==
    { <<"p","y","t","h","o","n">>, <<"p","r","o","g","r","a","m","m","i","n","g">>,
      <<"t","u","t","o","r","i","a","l">>, <<"l","e","a","r","n">>,
      <<"s","c","r","a","t","c","h">> }

\* C9 as stated: for a record with a non-empty description
\* extract_related_keywords returns the word tokens of the title and of the
\* description, lowercased, all of them and nothing else, each once; for the
\* example record, the eight words.
C9_ExactTokenSet ==
    (xout.ran /\ xin.description # <<>>) =>
        /\ Range(xout.keywords) =
               {Lower(t) : t \in WordTokens(xin.title) \cup WordTokens(xin.description)}
        /\ Len(xout.keywords) = Cardinality(Range(xout.keywords))
        /\ IsExample(xin) => Range(xout.keywords) = ExampleKeywords

\* C10 as stated: for the example record extract_related_keywords returns
\* exactly python, programming, tutorial, learn, scratch: no 'from', 'in', 'this'.
C10_StopWordsOmitted ==
    (xout.ran /\ IsExample(xin)) =>
        /\ Range(xout.keywords) = TestExpectedKeywords
        /\ Len(xout.keywords) = 5

====
